---- MODULE Spec2Model ----
(***************************************************************************)
(* Model of Utils::Unarchiver (src/libs/utils/unarchiver.cpp): the tool    *)
(* catalog sTools(), the resolver Unarchiver::sourceAndCommand(), and the  *)
(* executor Unarchiver::start() with the callbacks it connects to its      *)
(* child Process.                                                          *)
(***************************************************************************)
EXTENDS Integers, Sequences, FiniteSets, TLC

VARIABLES
    isWindowsHost,       \* HostOsInfo::isWindowsHost()
    hostFiles,           \* the executables that exist on the host
    tools,               \* the function-local static QList<Tool> of sTools()
    lastCall,            \* the last call of sourceAndCommand(): argument, result, searches
    m_sourceAndCommand,  \* std::optional<SourceAndCommand>
    m_destDir,           \* FilePath, "" when empty
    m_gzipFileDestName,  \* QString
    m_process,           \* std::unique_ptr<Process>: NoProcess or the process
    outputFile,          \* the QFile shared by the gzip branch's callbacks
    dirs,                \* the directories that exist
    files,               \* the regular files that exist, and their contents
    childStdout,         \* what the child has written to its standard output so far
    startCalls,          \* number of start() calls made
    emitted,             \* the signals emitted so far, in order
    rendered,            \* a call of unarchiveCommand(): its arguments and its result
    catalogCalls,        \* the threads inside sTools(): where each one is, what it got
    taskInterfaceDone    \* the results UnarchiverTaskAdapter has emitted TaskInterface::done with

vars == <<isWindowsHost, hostFiles, tools, lastCall, m_sourceAndCommand, m_destDir,
          m_gzipFileDestName, m_process, outputFile, dirs, files, childStdout,
          startCalls, emitted, rendered, catalogCalls, taskInterfaceDone>>

hostVars == <<isWindowsHost, hostFiles>>
taskVars == <<m_sourceAndCommand, m_destDir, m_gzipFileDestName, m_process, outputFile,
              dirs, files, childStdout, startCalls, emitted, taskInterfaceDone>>

----------------------------------------------------------------------------
(* FilePath: a directory and a file name; the empty path has neither.      *)

FilePath(dir, name) == [dir |-> dir, name |-> name]

EmptyFilePath == FilePath("", "")

\* FilePath::toUserOutput()
ToUserOutput(fp) == IF fp.dir = "" THEN fp.name ELSE fp.dir \o "/" \o fp.name

\* The directories of PATH on the host.
PathDirs == <<"/bin">>

\* The registry: key -> the values read with the 64 bit and the 32 bit view.
SevenZipKey == "HKEY_CURRENT_USER\\Software\\7-Zip"
CMakeKey == "HKEY_LOCAL_MACHINE\\SOFTWARE\\Kitware\\CMake"

RegistryValue(registryKey, valueName, format) ==
    CASE registryKey = SevenZipKey /\ valueName = "Path" /\ format = 64 -> "C:/7-Zip"
      [] registryKey = CMakeKey /\ valueName = "InstallDir" /\ format = 64 -> "C:/CMake"
      [] OTHER -> ""

\* additionalInstallDirs(registryKey, valueName)
additionalInstallDirs(registryKey, valueName) ==
    IF isWindowsHost
    THEN <<RegistryValue(registryKey, valueName, 64), RegistryValue(registryKey, valueName, 32)>>
    ELSE <<>>

(* A QString that takes part in placeholder substitution is a sequence of   *)
(* symbols: the characters of the placeholders one by one, and every run   *)
(* of other text (which holds no '%') as one symbol.                       *)
Lit(text) == <<text>>
Sp == <<" ">>
Src == <<"%", "{", "s", "r", "c", "}">>
Dest == <<"%", "{", "d", "e", "s", "t", "}">>

\* CommandLine(executable, arguments) and CommandLine(executable, arguments, Raw)
Command(exe, args, raw) == [executable |-> FilePath("", exe), args |-> args, raw |-> raw]

Tool(command, supportedMimeTypes, additionalSearchDirs) ==
    [command |-> command, supportedMimeTypes |-> supportedMimeTypes,
     additionalSearchDirs |-> additionalSearchDirs]

\* The entries sTools() appends for the tools that extract archives, in order.
ArchiveTools ==
    LET additionalCMakeDirs == additionalInstallDirs(CMakeKey, "InstallDir")
    IN  (IF isWindowsHost
         THEN <<Tool(Command("powershell",
                             <<Lit("-command") \o Sp \o Lit("Expand-Archive") \o Sp
                               \o Lit("-Force") \o Sp \o Lit("'") \o Src \o Lit("'")
                               \o Sp \o Lit("'") \o Dest \o Lit("'")>>, TRUE),
                     <<"application/zip">>, <<>>)>>
         ELSE <<>>)
        \o
        <<Tool(Command("unzip", <<Lit("-o"), Src, Lit("-d"), Dest>>, FALSE),
               <<"application/zip">>, <<>>),
          Tool(Command("7z", <<Lit("x"), Lit("-o") \o Dest, Lit("-y"), Lit("-bb"), Src>>, FALSE),
               <<"application/zip", "application/x-7z-compressed">>,
               additionalInstallDirs(SevenZipKey, "Path")),
          Tool(Command("cmake", <<Lit("-E"), Lit("tar"), Lit("xvf"), Src>>, FALSE),
               <<"application/zip", "application/x-tar", "application/x-7z-compressed">>,
               additionalCMakeDirs),
          Tool(Command("cmake", <<Lit("-E"), Lit("tar"), Lit("xvzf"), Src>>, FALSE),
               <<"application/x-compressed-tar">>, additionalCMakeDirs),
          Tool(Command("cmake", <<Lit("-E"), Lit("tar"), Lit("xvJf"), Src>>, FALSE),
               <<"application/x-xz-compressed-tar">>, additionalCMakeDirs),
          Tool(Command("cmake", <<Lit("-E"), Lit("tar"), Lit("xvjf"), Src>>, FALSE),
               <<"application/x-bzip-compressed-tar">>, additionalCMakeDirs),
          Tool(Command("tar", <<Lit("xvf"), Src>>, FALSE),
               <<"application/zip", "application/x-tar", "application/x-7z-compressed">>,
               <<>>),
          Tool(Command("tar", <<Lit("xvzf"), Src>>, FALSE),
               <<"application/x-compressed-tar">>, <<>>),
          Tool(Command("tar", <<Lit("xvJf"), Src>>, FALSE),
               <<"application/x-xz-compressed-tar">>, <<>>),
          Tool(Command("tar", <<Lit("xvjf"), Src>>, FALSE),
               <<"application/x-bzip-compressed-tar">>, <<>>)>>

\* The entry of the stream decompressor.
GzipTool ==
    Tool(Command("gzip", <<Lit("-d"), Src, Lit("-c")>>, FALSE), <<"application/gzip">>, <<>>)

\* A faulty variant of BuildTools: the stream decompressor comes first.
BuildToolsGzipFirst == <<GzipTool>> \o ArchiveTools

\* The list sTools() builds when the static list is empty: the stream decompressor is
\* appended last.
BuildTools == ArchiveTools \o <<GzipTool>>

\* sTools(): the static list after the call; it is built only when it is empty.
sTools == IF tools = <<>> THEN BuildTools ELSE tools

----------------------------------------------------------------------------
(* The MIME collaborator: the type of a file, and the type hierarchy.      *)

MimeParents(mt) ==
    CASE mt = "application/x-compressed-tar" -> {"application/gzip"}
      [] mt = "application/x-xz-compressed-tar" -> {"application/x-xz"}
      [] mt = "application/x-bzip-compressed-tar" -> {"application/x-bzip"}
      [] mt = "application/java-archive" -> {"application/zip"}
      [] mt = "application/octet-stream" -> {}
      [] OTHER -> {"application/octet-stream"}

RECURSIVE MimeAncestors(_)
MimeAncestors(mt) == {mt} \cup UNION {MimeAncestors(p) : p \in MimeParents(mt)}

\* MimeType::inherits(mt): reflexive and transitive.
Inherits(mimeType, mt) == mt \in MimeAncestors(mimeType)

\* mimeTypeForFile(fp)
mimeTypeForFile(fp) ==
    CASE fp = "archive.zip" -> "application/zip"
      [] fp = "lib.jar" -> "application/java-archive"
      [] fp = "archive.7z" -> "application/x-7z-compressed"
      [] fp = "archive.tar" -> "application/x-tar"
      [] fp = "archive.tar.gz" -> "application/x-compressed-tar"
      [] fp = "archive.tar.xz" -> "application/x-xz-compressed-tar"
      [] fp = "archive.tar.bz2" -> "application/x-bzip-compressed-tar"
      [] fp = "data.gz" -> "application/gzip"
      [] fp = "data.xz" -> "application/x-xz"
      [] OTHER -> "text/plain"

----------------------------------------------------------------------------
(* The resolver.                                                           *)

\* Utils::filtered is SelectSeq: the elements that satisfy the predicate, in order.

\* A faulty variant of toolsForMimeType: the type must be declared itself.
toolsForMimeTypeExact(mimeType) ==
    LET Declares(tool) == \E i \in DOMAIN tool.supportedMimeTypes :
                              tool.supportedMimeTypes[i] = mimeType
    IN  SelectSeq(sTools, Declares)

toolsForMimeType(mimeType) ==
    LET Supports(tool) == \E i \in DOMAIN tool.supportedMimeTypes :
                              Inherits(mimeType, tool.supportedMimeTypes[i])
    IN  SelectSeq(sTools, Supports)

toolsForFilePath(fp) == toolsForMimeType(mimeTypeForFile(fp))

\* FilePath::withExecutableSuffix()
withExecutableSuffix(fp) ==
    IF isWindowsHost THEN FilePath(fp.dir, fp.name \o ".exe") ELSE fp

\* FilePath::searchInPath(additionalDirs): PATH first, then the additional directories.
searchInPath(fp, additionalDirs) ==
    LET searchDirs == PathDirs \o additionalDirs
        found == {i \in DOMAIN searchDirs :
                     searchDirs[i] # "" /\ FilePath(searchDirs[i], fp.name) \in hostFiles}
    IN  IF found = {} THEN EmptyFilePath
        ELSE FilePath(searchDirs[CHOOSE i \in found : \A j \in found : i <= j], fp.name)

NoTool == [none |-> TRUE]

\* A faulty variant of resolveTool: the result of the search is not looked at.
resolveToolUnchecked(tool) ==
    [tool EXCEPT !.command.executable =
        searchInPath(withExecutableSuffix(tool.command.executable), tool.additionalSearchDirs)]

\* resolveTool(tool): a copy of the tool with the executable that was found, no value
\* when none was.
resolveTool(tool) ==
    LET executable == searchInPath(withExecutableSuffix(tool.command.executable),
                                   tool.additionalSearchDirs)
        resolvedTool == [tool EXCEPT !.command.executable = executable]
    IN  IF executable = EmptyFilePath THEN NoTool ELSE resolvedTool

\* A faulty variant of catalogAfter: resolveTool() sets the executable it found in the
\* entry of the catalog itself, for every candidate.
catalogAfterInPlace(sourceFile) ==
    LET Supports(tool) == \E i \in DOMAIN tool.supportedMimeTypes :
                              Inherits(mimeTypeForFile(sourceFile), tool.supportedMimeTypes[i])
    IN  [i \in DOMAIN sTools |->
            IF Supports(sTools[i]) THEN resolveToolUnchecked(sTools[i]) ELSE sTools[i]]

\* The static list after sourceAndCommand(sourceFile): what sTools() built. The
\* candidates are copies (toolsForMimeType returns a QList by value) and resolveTool()
\* takes a const Tool & and changes a copy of it.
catalogAfter(sourceFile) == sTools

\* A faulty variant of firstResolved: the last candidate that resolves, 0 when none does.
RECURSIVE lastResolved(_, _)
lastResolved(candidates, i) ==
    IF i > Len(candidates) THEN 0
    ELSE LET later == lastResolved(candidates, i + 1)
         IN  IF later # 0 THEN later
             ELSE IF resolveTool(candidates[i]) # NoTool THEN i ELSE 0

\* The candidate loop of sourceAndCommand(): the index of the first candidate, from
\* the i-th on, that resolves; 0 when none does.
RECURSIVE firstResolved(_, _)
firstResolved(candidates, i) ==
    IF i > Len(candidates) THEN 0
    ELSE IF resolveTool(candidates[i]) # NoTool THEN i
    ELSE firstResolved(candidates, i + 1)

\* QStringList::join
RECURSIVE join(_, _)
join(list, sep) ==
    IF list = <<>> THEN ""
    ELSE IF Len(list) = 1 THEN list[1]
    ELSE list[1] \o sep \o join(Tail(list), sep)

\* A faulty variant of attemptedExecs: only the candidates that come before the last one.
attemptedExecsButLast(candidates) ==
    [i \in 1..(Len(candidates) - 1) |-> ToUserOutput(candidates[i].command.executable)]

\* The names sourceAndCommand() puts into its message: transform(tools, executable name).
attemptedExecs(candidates) ==
    [i \in 1..Len(candidates) |-> ToUserOutput(candidates[i].command.executable)]

\* A faulty variant of sourceAndCommand: without the check for an empty candidate list.
sourceAndCommandNoEmptyCheck(sourceFile) ==
    LET candidates == toolsForFilePath(sourceFile)
        hit == firstResolved(candidates, 1)
        tried == IF hit = 0 THEN Len(candidates) ELSE hit
        searched == [i \in 1..tried |->
                        withExecutableSuffix(candidates[i].command.executable).name]
        execs == attemptedExecs(candidates)
    IN  IF hit # 0
        THEN [ok |-> TRUE, sourceFile |-> sourceFile,
              command |-> resolveTool(candidates[hit]).command, searched |-> searched]
        ELSE [ok |-> FALSE, execs |-> execs, searched |-> searched,
              error |-> "Could not find any unarchiving executable in PATH ("
                        \o join(execs, ", ") \o ")."]

\* Unarchiver::sourceAndCommand(sourceFile): the expected_str it returns, and (in
\* searched) the file names it searched for, in the order of the searches.
sourceAndCommand(sourceFile) ==
    LET candidates == toolsForFilePath(sourceFile)
        hit == firstResolved(candidates, 1)
        tried == IF hit = 0 THEN Len(candidates) ELSE hit
        searched == [i \in 1..tried |->
                        withExecutableSuffix(candidates[i].command.executable).name]
        execs == attemptedExecs(candidates)
    IN  IF candidates = <<>>
        THEN [ok |-> FALSE, execs |-> <<>>, searched |-> <<>>,
              error |-> "File format not supported."]
        ELSE IF hit # 0
        THEN [ok |-> TRUE, sourceFile |-> sourceFile,
              command |-> resolveTool(candidates[hit]).command, searched |-> searched]
        ELSE [ok |-> FALSE, execs |-> execs, searched |-> searched,
              error |-> "Could not find any unarchiving executable in PATH ("
                        \o join(execs, ", ") \o ")."]

----------------------------------------------------------------------------
(* Bounds of the model.                                                    *)

\* start() is called at most this many times.
MaxStartCalls == 2
\* The scheduler takes the processor from a thread inside sTools() at most this many
\* times.
MaxSwitches == 2
\* The child delivers at most this many chunks, on its standard output and its
\* standard error together.
MaxChunks == 2

\* The files sourceAndCommand() is called with.
AllSourceFiles == {"archive.zip", "lib.jar", "archive.7z", "archive.tar", "archive.tar.gz",
                   "archive.tar.xz", "archive.tar.bz2", "data.gz", "data.xz", "notes.txt"}
SourceFiles == {"archive.zip", "archive.tar.gz", "data.gz"}

\* The names of the executables a host may have.
ExecutableNames == {"powershell", "unzip", "7z", "cmake", "tar", "gzip"}

\* The directories setDestDir() is called with: none, one that can be created, and
\* one below a directory that is not writable.
DestDirs == {"", "/out", "/ro/out"}
GZipFileDestNames == {"", "data"}

\* The paths unarchiveCommand() is called with, as strings of symbols: plain ones, one
\* with a space, and ones whose file or directory name holds the text of a
\* placeholder (the characters % { } are legal in file names).
SourcePaths == {Lit("/tmp/archive.zip"), Lit("/tmp/my archive.zip"),
                Lit("/tmp/") \o Src \o Lit(".zip"), Lit("/tmp/") \o Dest \o Lit(".zip")}
DestPaths == {Lit("/out"), Lit("/my out"), Lit("/out/") \o Src, Lit("/out/") \o Dest}

\* The chunks a child writes, and the bytes of a failed pipe read.
Chunks == {<<"a">>, <<"b", "c">>}

----------------------------------------------------------------------------
(* The file system.                                                        *)

\* QFileInfo::isWritable() of an existing directory
isWritableDir(dir) == dir # "/ro"

\* The parent directory of the directories of the model.
parentDir(dir) == IF dir = "/ro/out" THEN "/ro" ELSE "/"

\* FilePath::ensureWritableDir(): the directories that exist after the call.
ensureWritableDir(dir) ==
    IF dir \in dirs THEN dirs
    ELSE IF isWritableDir(parentDir(dir)) THEN dirs \cup {dir}
    ELSE dirs

\* QFile::open(QIODevice::WriteOnly) of path, with the directories in existing: the
\* file is created or truncated when its directory exists and is writable and the
\* path names a file.
canOpenForWriting(path, existing) ==
    path.name # "" /\ path.dir \in existing /\ isWritableDir(path.dir)

\* QFile::write(data) that accepted `written` bytes (-1: an error).
RECURSIVE takeBytes(_, _)
takeBytes(data, n) ==
    IF n <= 0 \/ data = <<>> THEN <<>> ELSE <<Head(data)>> \o takeBytes(Tail(data), n - 1)

----------------------------------------------------------------------------
(* The command.                                                            *)

\* QString::replace(before, after): every occurrence, from left to right.
RECURSIVE replace(_, _, _)
replace(str, before, after) ==
    IF Len(str) < Len(before) THEN str
    ELSE IF SubSeq(str, 1, Len(before)) = before
    THEN after \o replace(SubSeq(str, Len(before) + 1, Len(str)), before, after)
    ELSE <<Head(str)>> \o replace(Tail(str), before, after)

\* Splitting a string of symbols at its spaces.
RECURSIVE splitAtSpaces(_, _)
splitAtSpaces(str, word) ==
    IF str = <<>> THEN (IF word = <<>> THEN <<>> ELSE <<word>>)
    ELSE IF Head(str) = " "
    THEN (IF word = <<>> THEN <<>> ELSE <<word>>) \o splitAtSpaces(Tail(str), <<>>)
    ELSE splitAtSpaces(Tail(str), Append(word, Head(str)))

\* CommandLine::splitArguments()
splitArguments(command) ==
    IF command.raw THEN splitAtSpaces(command.args[1], <<>>) ELSE command.args

\* unarchiveCommand(commandTemplate, sourceFile, destDir), with sourceFile.path() and
\* destDir.path() given as strings of symbols: the second replace() runs over the
\* result of the first.
unarchiveCommand(commandTemplate, sourceFile, destDir) ==
    LET split == splitArguments(commandTemplate)
        args == [i \in DOMAIN split |->
                    replace(replace(split[i], Src, sourceFile), Dest, destDir)]
    IN  [executable |-> commandTemplate.executable, args |-> args, raw |-> FALSE]

RECURSIVE flatten(_)
flatten(args) == IF args = <<>> THEN <<>> ELSE Sp \o Head(args) \o flatten(Tail(args))

\* CommandLine::toUserOutput()
commandToUserOutput(command) == <<ToUserOutput(command.executable)>> \o flatten(command.args)

----------------------------------------------------------------------------
(* The signals.                                                            *)

NoSourceAndCommand == [none |-> TRUE]
NoProcess == [none |-> TRUE]
NoOutputFile == [none |-> TRUE]
NoRendering == [none |-> TRUE]
NoCatalogCalls == [none |-> TRUE]
NoCommand == [none |-> TRUE]

outputReceived(call, text) == [call |-> call, sig |-> "outputReceived", arg |-> text]
done(call, result) == [call |-> call, sig |-> "done", arg |-> <<result>>]

\* toDoneResult(success)
toDoneResult(success) == IF success THEN "Success" ELSE "Error"

RunningMessage(command, destDir) ==
    <<"Running ">> \o commandToUserOutput(command) \o <<"\nin \"", destDir, "\".\n\n">>

\* The process: the start() call that created it, the callbacks connected to it
\* (those of the gzip branch or those of the archive branch), what it was given and
\* its ProcessResult once it has finished.
NewProcess(call, branch, command, workingDirectory) ==
    [call |-> call, branch |-> branch, command |-> command,
     workingDirectory |-> workingDirectory, state |-> "Running",
     mergedChannels |-> (branch = "archive"), result |-> "None",
     stdoutChunks |-> 0, stderrChunks |-> 0]

----------------------------------------------------------------------------
(* The initial states.                                                     *)

NoCall == [sourceFile |-> "",
           result |-> [ok |-> FALSE, execs |-> <<>>, searched |-> <<>>, error |-> ""]]

\* The install directory the registry names for an executable.
InstallDir(name) == IF name = "7z" THEN RegistryValue(SevenZipKey, "Path", 64)
                    ELSE RegistryValue(CMakeKey, "InstallDir", 64)

\* A host with the executables inPath on PATH and those of installed in the
\* directory the registry names for them.
HostFiles(windows, inPath, installed) ==
    LET FileName(n) == IF windows THEN n \o ".exe" ELSE n
    IN  {FilePath(PathDirs[1], FileName(n)) : n \in inPath}
        \cup {FilePath(InstallDir(n), FileName(n)) : n \in installed}

InitTask ==
    /\ tools = <<>>
    /\ lastCall = NoCall
    /\ m_sourceAndCommand = NoSourceAndCommand
    /\ m_destDir = ""
    /\ m_gzipFileDestName = ""
    /\ m_process = NoProcess
    /\ outputFile = NoOutputFile
    /\ dirs = {"/", "/ro"}
    /\ files = <<>>
    /\ childStdout = <<>>
    /\ startCalls = 0
    /\ emitted = <<>>
    /\ taskInterfaceDone = <<>>

\* The hosts of the executor: one with every tool on PATH, Windows or not, and one
\* that has gzip alone.
Init ==
    /\ isWindowsHost \in BOOLEAN
    /\ \E inPath \in {ExecutableNames} \cup (IF isWindowsHost THEN {} ELSE {{"gzip"}}) :
           hostFiles = HostFiles(isWindowsHost, inPath, {})
    /\ InitTask
    /\ rendered = NoRendering
    /\ catalogCalls = NoCatalogCalls

\* The hosts of the resolver: every set of executables on PATH and, on Windows, in
\* the install directories of the registry.
InitResolve ==
    /\ isWindowsHost \in BOOLEAN
    /\ \E inPath \in SUBSET ExecutableNames :
       \E installed \in (IF isWindowsHost THEN SUBSET {"7z", "cmake"} ELSE {{}}) :
           hostFiles = HostFiles(isWindowsHost, inPath, installed)
    /\ InitTask
    /\ rendered = NoRendering
    /\ catalogCalls = NoCatalogCalls

\* The calls of unarchiveCommand(): every command template of the catalog of the
\* host, with every source path and destination path of the bounded sets.
InitRender ==
    /\ isWindowsHost \in BOOLEAN
    /\ hostFiles = HostFiles(isWindowsHost, ExecutableNames, {})
    /\ InitTask
    /\ \E i \in DOMAIN BuildTools : \E sourceFile \in SourcePaths : \E destDir \in DestPaths :
           rendered = [commandTemplate |-> BuildTools[i].command, sourceFile |-> sourceFile,
                       destDir |-> destDir, command |-> NoCommand]
    /\ catalogCalls = NoCatalogCalls

----------------------------------------------------------------------------
(* The caller's operations.                                                *)

\* A call of the static Unarchiver::sourceAndCommand(sourceFile). The caller
\* resolves before it launches: the result is of use to setSourceAndCommand() only.
SourceAndCommandCall(sourceFile) ==
    /\ m_process = NoProcess
    /\ lastCall' = [sourceFile |-> sourceFile, result |-> sourceAndCommand(sourceFile)]
    /\ tools' = catalogAfter(sourceFile)
    /\ UNCHANGED <<hostVars, rendered, catalogCalls, taskVars>>

\* setSourceAndCommand(data), with the value the last sourceAndCommand() returned.
\* Once the process exists start() returns at its first line and the callbacks read
\* neither m_sourceAndCommand nor m_gzipFileDestName: the model leaves out the calls
\* of these two setters that come later, which change nothing observable.
setSourceAndCommand ==
    /\ m_process = NoProcess
    /\ lastCall.result.ok
    /\ m_sourceAndCommand' = [m_sourceFile |-> lastCall.result.sourceFile,
                              m_commandTemplate |-> lastCall.result.command]
    /\ UNCHANGED <<hostVars, rendered, catalogCalls, tools, lastCall, m_destDir,
                   m_gzipFileDestName, m_process, outputFile, dirs, files, childStdout,
                   startCalls, emitted, taskInterfaceDone>>

setDestDir(destDir) ==
    /\ m_destDir' = destDir
    /\ UNCHANGED <<hostVars, rendered, catalogCalls, tools, lastCall, m_sourceAndCommand,
                   m_gzipFileDestName, m_process, outputFile, dirs, files, childStdout,
                   startCalls, emitted, taskInterfaceDone>>

setGZipFileDestName(gzipFileDestName) ==
    /\ m_process = NoProcess
    /\ m_gzipFileDestName' = gzipFileDestName
    /\ UNCHANGED <<hostVars, rendered, catalogCalls, tools, lastCall, m_sourceAndCommand,
                   m_destDir, m_process, outputFile, dirs, files, childStdout, startCalls,
                   emitted, taskInterfaceDone>>

----------------------------------------------------------------------------
(* Unarchiver::start()                                                     *)

\* A faulty variant of preconditionFailure: the destination directory is not checked.
preconditionFailureSourceOnly ==
    IF m_sourceAndCommand = NoSourceAndCommand THEN <<"No source file set.">>
    ELSE <<>>

\* The checks of m_sourceAndCommand and m_destDir: the message of the one that
\* fails, <<>> when both pass.
preconditionFailure ==
    IF m_sourceAndCommand = NoSourceAndCommand THEN <<"No source file set.">>
    ELSE IF m_destDir = "" THEN <<"No destination directory set.">>
    ELSE <<>>

\* A faulty variant of processPresent: the assertion is missing.
processPresentNever == FALSE

\* A faulty variant of processPresent: a finished process does not count.
processPresentWhileRunning == m_process # NoProcess /\ m_process.state = "Running"

\* The condition QTC_ASSERT(!m_process, ...) rejects: the instance holds a process,
\* running or finished (m_process is never reset).
processPresent == m_process # NoProcess

\* A faulty variant of assertFailureSignals: the assertion returns without a signal.
assertFailureSilent(call) == <<>>

\* What the failing QTC_ASSERT emits: done(Error), and no diagnostic.
assertFailureSignals(call) == <<done(call, "Error")>>

\* A faulty variant of openFails: the result of open() is not looked at.
openFailsNever(command, path, existing) == FALSE

\* The gzip branch could not open the output file for writing.
openFails(command, path, existing) ==
    command.executable.name = "gzip" /\ ~canOpenForWriting(path, existing)

\* The signals an operation has emitted: those that were added to the log.
emittedBy(before, after) == SubSeq(after, Len(before) + 1, Len(after))

\* A faulty variant of forwarded: the adapter reports every end as Success.
forwardedAsSuccess(signals) ==
    LET dones == SelectSeq(signals, LAMBDA e : e.sig = "done")
    IN  [i \in DOMAIN dones |-> "Success"]

\* connect(task(), &Unarchiver::done, this, &TaskInterface::done): the results the
\* adapter emits TaskInterface::done with, one for each done among the signals of
\* the Unarchiver, with the argument of the signal.
forwarded(signals) ==
    LET dones == SelectSeq(signals, LAMBDA e : e.sig = "done")
    IN  [i \in DOMAIN dones |-> dones[i].arg[1]]

\* A faulty variant of launchSignals: the process is started unannounced.
launchSignalsSilent(call, command, destDir) == <<>>

\* What start() emits between connecting the callbacks and m_process->start(): the
\* "Running <cmd> in <workingdirectory>" notification, in either branch.
launchSignals(call, command, destDir) ==
    <<outputReceived(call, RunningMessage(command, destDir))>>

\* The branch start() takes for the rendered command.
branchOf(command) == IF command.executable.name = "gzip" THEN "gzip" ELSE "archive"

start ==
    /\ startCalls < MaxStartCalls
    /\ startCalls' = startCalls + 1
    /\ LET call == startCalls + 1
       IN  IF processPresent
           THEN \* QTC_ASSERT(!m_process, emit done(DoneResult::Error); return)
                /\ emitted' = emitted \o assertFailureSignals(call)
                /\ UNCHANGED <<m_process, outputFile, dirs, files, childStdout>>
           ELSE IF preconditionFailure # <<>>
           THEN /\ emitted' = emitted \o <<outputReceived(call, preconditionFailure),
                                            done(call, "Error")>>
                /\ UNCHANGED <<m_process, outputFile, dirs, files, childStdout>>
           ELSE LET command == unarchiveCommand(m_sourceAndCommand.m_commandTemplate,
                                                Lit(m_sourceAndCommand.m_sourceFile),
                                                Lit(m_destDir))
                    existing == ensureWritableDir(m_destDir)
                    path == FilePath(m_destDir, m_gzipFileDestName)
                IN  /\ dirs' = existing
                    /\ IF openFails(command, path, existing)
                       THEN /\ emitted' = emitted \o
                                   <<outputReceived(call, <<"Failed to open output file.">>),
                                     done(call, "Error")>>
                            /\ UNCHANGED <<m_process, outputFile, files, childStdout>>
                       ELSE /\ m_process' = NewProcess(call, branchOf(command), command,
                                                       m_destDir)
                            /\ emitted' = emitted \o launchSignals(call, command, m_destDir)
                            /\ childStdout' = <<>>
                            /\ IF branchOf(command) = "gzip"
                               THEN /\ outputFile' = [path |-> path, open |-> TRUE]
                                    /\ files' = [p \in DOMAIN files \cup {path} |->
                                                    IF p = path THEN <<>> ELSE files[p]]
                               ELSE UNCHANGED <<outputFile, files>>
    /\ UNCHANGED <<hostVars, rendered, catalogCalls, tools, lastCall, m_sourceAndCommand,
                   m_destDir, m_gzipFileDestName>>
    /\ taskInterfaceDone' = taskInterfaceDone \o forwarded(emittedBy(emitted, emitted'))

----------------------------------------------------------------------------
(* The callbacks start() connects to the process.                          *)

\* Whether the child can run at all: its working directory exists.
canRun == m_process.workingDirectory \in dirs

\* A faulty variant of stdoutSignals: the gzip branch forwards the chunk as well.
stdoutSignalsForwarded(branch, call, data, written) ==
    <<outputReceived(call, data)>>
    \o (IF branch = "gzip" /\ written # Len(data)
        THEN <<outputReceived(call, <<"Failed to write output file.">>), done(call, "Error")>>
        ELSE <<>>)

\* What the readyReadStandardOutput handler of the branch emits for a chunk: the gzip
\* branch emits nothing unless the write was short, the archive branch forwards it.
stdoutSignals(branch, call, data, written) ==
    IF branch = "gzip"
    THEN IF written # Len(data)
         THEN <<outputReceived(call, <<"Failed to write output file.">>), done(call, "Error")>>
         ELSE <<>>
    ELSE <<outputReceived(call, data)>>

\* Process::readyReadStandardOutput: the child wrote data; in the gzip branch the
\* write of it to the output file accepted `written` bytes.
readyReadStandardOutput(data, written) ==
    /\ m_process # NoProcess
    /\ m_process.state = "Running"
    /\ canRun
    /\ m_process.stdoutChunks + m_process.stderrChunks < MaxChunks
    /\ m_process' = [m_process EXCEPT !.stdoutChunks = @ + 1]
    /\ childStdout' = childStdout \o data
    /\ IF m_process.branch = "gzip"
       THEN /\ written \in -1..Len(data)
            /\ files' = [files EXCEPT ![outputFile.path] = @ \o takeBytes(data, written)]
       ELSE /\ written = Len(data)
            /\ UNCHANGED files
    /\ emitted' = emitted \o stdoutSignals(m_process.branch, m_process.call, data, written)
    /\ UNCHANGED <<hostVars, rendered, catalogCalls, tools, lastCall, m_sourceAndCommand,
                   m_destDir, m_gzipFileDestName, outputFile, dirs, startCalls>>
    /\ taskInterfaceDone' = taskInterfaceDone \o forwarded(emittedBy(emitted, emitted'))

\* Process::readyReadStandardError, connected in the gzip branch only (the archive
\* branch merges the channels).
readyReadStandardError(text) ==
    /\ m_process # NoProcess
    /\ m_process.state = "Running"
    /\ canRun
    /\ m_process.branch = "gzip"
    /\ m_process.stdoutChunks + m_process.stderrChunks < MaxChunks
    /\ m_process' = [m_process EXCEPT !.stderrChunks = @ + 1]
    /\ emitted' = Append(emitted, outputReceived(m_process.call, text))
    /\ UNCHANGED <<hostVars, rendered, catalogCalls, tools, lastCall, m_sourceAndCommand,
                   m_destDir, m_gzipFileDestName, outputFile, dirs, files, childStdout,
                   startCalls>>
    /\ taskInterfaceDone' = taskInterfaceDone \o forwarded(emittedBy(emitted, emitted'))

\* A faulty variant of filesAfterDone: the output file is kept when the process failed.
filesAfterDoneKept(success) == files

\* The files after the done handler of the gzip branch: outputFile->remove() when
\* the process did not succeed.
filesAfterDone(success) ==
    IF success THEN files
    ELSE [p \in DOMAIN files \ {outputFile.path} |-> files[p]]

\* A faulty variant of processSucceeded: only a failure to start counts as a failure.
processSucceededOnceStarted(result) == result # "StartFailed"

\* The done handlers' verdict: m_process->result() == ProcessResult::FinishedWithSuccess.
processSucceeded(result) == result = "FinishedWithSuccess"

\* A faulty variant of commandFailed: a failed process is not announced.
commandFailedSilent(call, success) == <<>>

\* The notification of the done handlers for a process that did not succeed.
commandFailed(call, success) ==
    IF success THEN <<>> ELSE <<outputReceived(call, <<"Command failed.">>)>>

\* A faulty variant of processAfterDone: a failed process is started again.
processAfterDoneRetry(result) ==
    IF result = "FinishedWithSuccess"
    THEN [m_process EXCEPT !.state = "Finished", !.result = result]
    ELSE [m_process EXCEPT !.stdoutChunks = 0, !.stderrChunks = 0]

\* The process once it has emitted done: finished for good with its result; the
\* done handlers start nothing.
processAfterDone(result) == [m_process EXCEPT !.state = "Finished", !.result = result]

\* A faulty variant of terminalSignals: the failure path returns without the signal.
terminalSignalsOnSuccess(call, success) ==
    IF success THEN <<done(call, "Success")>> ELSE <<>>

\* The last statement of the done handlers: emit done(toDoneResult(success)).
terminalSignals(call, success) == <<done(call, toDoneResult(success))>>

\* Process::done with the process's result.
processDone(result) ==
    /\ m_process # NoProcess
    /\ m_process.state = "Running"
    /\ result \in {"FinishedWithSuccess", "FinishedWithError", "StartFailed"}
    /\ ~canRun => result = "StartFailed"
    /\ result = "StartFailed" => m_process.stdoutChunks = 0 /\ m_process.stderrChunks = 0
    /\ m_process' = processAfterDone(result)
    /\ LET success == processSucceeded(result)
       IN  /\ emitted' = emitted \o commandFailed(m_process.call, success)
                         \o terminalSignals(m_process.call, success)
           /\ IF m_process.branch = "gzip"
              THEN /\ outputFile' = [outputFile EXCEPT !.open = FALSE]
                   /\ files' = filesAfterDone(success)
              ELSE UNCHANGED <<outputFile, files>>
    /\ UNCHANGED <<hostVars, rendered, catalogCalls, tools, lastCall, m_sourceAndCommand,
                   m_destDir, m_gzipFileDestName, dirs, childStdout, startCalls>>
    /\ taskInterfaceDone' = taskInterfaceDone \o forwarded(emittedBy(emitted, emitted'))

----------------------------------------------------------------------------
(* The specifications.                                                     *)

Next ==
    \/ \E sourceFile \in SourceFiles : SourceAndCommandCall(sourceFile)
    \/ setSourceAndCommand
    \/ \E destDir \in DestDirs : setDestDir(destDir)
    \/ \E name \in GZipFileDestNames : setGZipFileDestName(name)
    \/ start
    \/ \E data \in Chunks : \E written \in -1..2 : readyReadStandardOutput(data, written)
    \/ readyReadStandardError(<<"gzip: unexpected end of file">>)
    \/ \E result \in {"FinishedWithSuccess", "FinishedWithError", "StartFailed"} :
           processDone(result)

Spec == Init /\ [][Next]_vars

\* The host of the executor under fairness: every tool on PATH, so that start()
\* reaches both of its branches (the done handlers do not look at the host).
InitLive ==
    /\ isWindowsHost = FALSE
    /\ hostFiles = HostFiles(isWindowsHost, ExecutableNames, {})
    /\ InitTask
    /\ rendered = NoRendering
    /\ catalogCalls = NoCatalogCalls

\* The executor with a process abstraction that delivers Process::done for every
\* process it was asked to start.
SpecLive ==
    /\ InitLive
    /\ [][Next]_vars
    /\ WF_vars(\E result \in {"FinishedWithSuccess", "FinishedWithError", "StartFailed"} :
                   processDone(result))

\* A call of the static unarchiveCommand() with the arguments drawn.
unarchiveCommandCall ==
    /\ rendered # NoRendering
    /\ rendered.command = NoCommand
    /\ rendered' = [rendered EXCEPT !.command =
                        unarchiveCommand(rendered.commandTemplate, rendered.sourceFile,
                                         rendered.destDir)]
    /\ UNCHANGED <<hostVars, catalogCalls, taskVars, tools, lastCall>>

\* The renderer alone.
NextRender == unarchiveCommandCall

SpecRender == InitRender /\ [][NextRender]_vars

----------------------------------------------------------------------------
(* sTools() called by two threads. The function-local static list is        *)
(* constructed once by the language, but the test tools.isEmpty() and the   *)
(* appends that fill the list are not guarded: the threads' statements      *)
(* interleave (a data race; the interleavings are among its outcomes).      *)

Threads == {1, 2}

\* Two threads enter sTools() for the first time, the static list still empty.
InitCatalogCalls ==
    /\ isWindowsHost \in BOOLEAN
    /\ hostFiles = HostFiles(isWindowsHost, ExecutableNames, {})
    /\ InitTask
    /\ rendered = NoRendering
    /\ catalogCalls = [pc |-> [t \in Threads |-> "isEmpty"],
                       next |-> [t \in Threads |-> 1],
                       result |-> [t \in Threads |-> <<>>],
                       current |-> 0,
                       switches |-> 0]

\* The thread may take its next step: it is on the processor, or the thread that was
\* has returned, or the scheduler may still switch.
mayRun(t) ==
    IF catalogCalls.current \in {0, t} THEN TRUE
    ELSE IF catalogCalls.pc[catalogCalls.current] = "returned" THEN TRUE
    ELSE catalogCalls.switches < MaxSwitches

\* The scheduler's bookkeeping after a step of the thread.
scheduled(calls, t) ==
    [calls EXCEPT !.current = t,
                  !.switches = IF /\ catalogCalls.current \notin {0, t}
                                  /\ catalogCalls.pc[catalogCalls.current] # "returned"
                               THEN @ + 1 ELSE @]

\* if (tools.isEmpty())
sToolsIsEmpty(t) ==
    /\ catalogCalls.pc[t] = "isEmpty"
    /\ mayRun(t)
    /\ catalogCalls' = scheduled([catalogCalls EXCEPT
                                     !.pc[t] = IF tools = <<>> THEN "append" ELSE "return"], t)
    /\ UNCHANGED <<hostVars, rendered, taskVars, tools, lastCall>>

\* tools << Tool{...}: the next of the statements that fill the list.
sToolsAppend(t) ==
    /\ catalogCalls.pc[t] = "append"
    /\ mayRun(t)
    /\ tools' = Append(tools, BuildTools[catalogCalls.next[t]])
    /\ catalogCalls' = scheduled([catalogCalls EXCEPT
                                     !.next[t] = @ + 1,
                                     !.pc[t] = IF catalogCalls.next[t] = Len(BuildTools)
                                               THEN "return" ELSE "append"], t)
    /\ UNCHANGED <<hostVars, rendered, taskVars, lastCall>>

\* return tools: what the caller finds in the list it is given.
sToolsReturn(t) ==
    /\ catalogCalls.pc[t] = "return"
    /\ mayRun(t)
    /\ catalogCalls' = scheduled([catalogCalls EXCEPT !.pc[t] = "returned",
                                                      !.result[t] = tools], t)
    /\ UNCHANGED <<hostVars, rendered, taskVars, tools, lastCall>>

NextCatalogCalls ==
    \E t \in Threads : sToolsIsEmpty(t) \/ sToolsAppend(t) \/ sToolsReturn(t)

SpecCatalogCalls == InitCatalogCalls /\ [][NextCatalogCalls]_vars

\* The resolver alone, on every host.
NextResolve == \E sourceFile \in AllSourceFiles : SourceAndCommandCall(sourceFile)

SpecResolve == InitResolve /\ [][NextResolve]_vars

----------------------------------------------------------------------------
(* Properties.                                                             *)

IsDone(e) == e.sig = "done"
IsOutput(e) == e.sig = "outputReceived"

\* The number of done signals emitted for a start() call.
DoneCount(call) == Cardinality({i \in DOMAIN emitted : IsDone(emitted[i]) /\ emitted[i].call = call})

\* A start() call is over when it did not launch the process, or the process it
\* launched has finished.
CallOver(call) ==
    /\ call \in 1..startCalls
    /\ \/ m_process = NoProcess
       \/ m_process.call # call
       \/ m_process.state = "Finished"

\* The process is the one of the gzip branch.
GzipProcess == m_process # NoProcess /\ m_process.branch = "gzip"

\* A step of start().
StartStep == startCalls' = startCalls + 1

\* C1: for every start() call the done signal is emitted exactly once: never twice,
\* and once when the call is over, whatever the child's events were (short writes to
\* the output file of the gzip branch included).
C1_ExactlyOneDone ==
    \A call \in 1..startCalls :
        /\ DoneCount(call) <= 1
        /\ CallOver(call) => DoneCount(call) = 1

\* C2: within one start() call no outputReceived signal follows the done signal.
C2_NoOutputAfterDone ==
    \A i, j \in DOMAIN emitted :
        (i < j /\ IsDone(emitted[i]) /\ emitted[i].call = emitted[j].call)
            => ~IsOutput(emitted[j])

----------------------------------------------------------------------------
(* The resolver's properties, stated on the catalog itself.                *)

\* The i-th catalog entry declares a type the file's type inherits.
EntrySupports(i, sourceFile) ==
    \E j \in DOMAIN BuildTools[i].supportedMimeTypes :
        Inherits(mimeTypeForFile(sourceFile), BuildTools[i].supportedMimeTypes[j])

\* The path the host has for the executable of the i-th catalog entry.
EntryExecutable(i) ==
    searchInPath(withExecutableSuffix(BuildTools[i].command.executable),
                 BuildTools[i].additionalSearchDirs)

EntryResolves(i) == EntryExecutable(i) # EmptyFilePath

\* The catalog entries that support the file, and those of them that resolve.
Supporting(sourceFile) == {i \in DOMAIN BuildTools : EntrySupports(i, sourceFile)}
Usable(sourceFile) == {i \in Supporting(sourceFile) : EntryResolves(i)}

\* The catalog entries whose executable has this name.
EntriesNamed(name) == {i \in DOMAIN BuildTools : BuildTools[i].command.executable.name = name}

Called == lastCall # NoCall

\* The last call selected the i-th catalog entry.
Selected(i) ==
    /\ lastCall.result.ok
    /\ lastCall.result.sourceFile = lastCall.sourceFile
    /\ lastCall.result.command = [BuildTools[i].command EXCEPT !.executable = EntryExecutable(i)]

\* The host of scenario B: no cmake and no tar can be found, gzip can.
ScenarioBHost ==
    /\ \A i \in EntriesNamed("cmake") \cup EntriesNamed("tar") : ~EntryResolves(i)
    /\ \A i \in EntriesNamed("gzip") : EntryResolves(i)

\* C3 as stated: in scenario B sourceAndCommand() of a compressed-tar source fails
\* with the unsupported-format error, and gzip is never selected for such a source.
C3_ScenarioBUnsupported ==
    (Called /\ lastCall.sourceFile = "archive.tar.gz")
        => /\ ScenarioBHost => (~lastCall.result.ok
                                /\ lastCall.result.error = "File format not supported.")
           /\ \A i \in EntriesNamed("gzip") : ~Selected(i)

\* C3 as amended: in scenario B sourceAndCommand() of a compressed-tar source
\* succeeds and selects the gzip entry; and gzip is selected for such a source only
\* when neither cmake nor tar can be found.
C3_ScenarioBSelectsGzip ==
    (Called /\ lastCall.sourceFile = "archive.tar.gz")
        => /\ ScenarioBHost => \E i \in EntriesNamed("gzip") : Selected(i)
           /\ (\E i \in EntriesNamed("gzip") : Selected(i))
                  => \A i \in EntriesNamed("cmake") \cup EntriesNamed("tar") :
                         EntrySupports(i, lastCall.sourceFile) => ~EntryResolves(i)

C3_Witness ==
    /\ Called /\ lastCall.sourceFile = "archive.tar.gz" /\ ScenarioBHost
    /\ lastCall.result.ok
    /\ lastCall.result.command.executable.name \in {"gzip", "gzip.exe"}

\* C4: sourceAndCommand() selects the first catalog entry, in catalog order, that
\* supports the detected type and whose executable is found, and fails when there
\* is none; the right-hand side is a function of the file and the host alone.
C4_FirstUsableEntry ==
    Called =>
        LET usable == Usable(lastCall.sourceFile)
        IN  IF usable = {} THEN ~lastCall.result.ok
            ELSE Selected(CHOOSE i \in usable : \A j \in usable : i <= j)

\* An entry was selected although an entry before it supports the type too (its
\* executable was not found).
C4_Witness ==
    /\ Called /\ lastCall.result.ok
    /\ \E i \in Usable(lastCall.sourceFile) :
           /\ Selected(i)
           /\ \E j \in Supporting(lastCall.sourceFile) : j < i
           /\ \E j \in Usable(lastCall.sourceFile) : j > i

\* C5: for a file whose type inherits none of the declared types sourceAndCommand()
\* returns the unsupported-format error and searches for no executable.
C5_Unsupported ==
    (Called /\ Supporting(lastCall.sourceFile) = {})
        => /\ ~lastCall.result.ok
           /\ lastCall.result.error = "File format not supported."
           /\ lastCall.result.searched = <<>>

\* The type of data.xz is the parent of a declared type, not one of its heirs.
C5_Witness ==
    /\ Called /\ lastCall.sourceFile = "data.xz"
    /\ hostFiles # {}
    /\ ~lastCall.result.ok

\* The k-th of the entries that support the file, in catalog order.
KthSupporting(sourceFile, k) ==
    CHOOSE i \in Supporting(sourceFile) :
        Cardinality({j \in Supporting(sourceFile) : j <= i}) = k

\* The executable names of the entries that support the file, in catalog order.
SupportingNames(sourceFile) ==
    [k \in 1..Cardinality(Supporting(sourceFile)) |->
        BuildTools[KthSupporting(sourceFile, k)].command.executable.name]

\* C6: when entries support the type and none of their executables is found,
\* sourceAndCommand() returns the no-executable error; its message lists the
\* executable name of every candidate, in catalog order, and every one was searched.
C6_NoExecutableListsAll ==
    (Called /\ Supporting(lastCall.sourceFile) # {} /\ Usable(lastCall.sourceFile) = {})
        => LET names == SupportingNames(lastCall.sourceFile)
           IN  /\ ~lastCall.result.ok
               /\ lastCall.result.execs = names
               /\ lastCall.result.error =
                      "Could not find any unarchiving executable in PATH ("
                      \o join(names, ", ") \o ")."
               /\ Len(lastCall.result.searched) = Len(names)
               /\ \A k \in DOMAIN names :
                      lastCall.result.searched[k] = names[k]
                      \/ lastCall.result.searched[k] = names[k] \o ".exe"

C6_Witness ==
    /\ Called /\ ~lastCall.result.ok
    /\ lastCall.result.execs = <<"cmake", "tar", "gzip">>
    /\ lastCall.result.error =
           "Could not find any unarchiving executable in PATH (cmake, tar, gzip)."
    /\ hostFiles # {}

----------------------------------------------------------------------------
(* The executor's properties.                                              *)

\* The signals a step emits.
NewlyEmitted == SubSeq(emitted', Len(emitted) + 1, Len(emitted'))

\* The step creates no process, no directory and no file, and opens no file.
NothingCreated == UNCHANGED <<m_process, dirs, files, outputFile>>

\* A step of start() with no resolved SourceAndCommand or an empty destination.
UnconfiguredStart ==
    StartStep /\ (m_sourceAndCommand = NoSourceAndCommand \/ m_destDir = "")

\* The step emits one diagnostic notification and then done(Error), both of the
\* start() call that is made.
DiagnosticThenError ==
    /\ Len(NewlyEmitted) = 2
    /\ IsOutput(NewlyEmitted[1]) /\ NewlyEmitted[1].call = startCalls'
    /\ NewlyEmitted[1].arg \in {<<"No source file set.">>, <<"No destination directory set.">>}
    /\ NewlyEmitted[2] = done(startCalls', "Error")

\* C7 as stated: start() with no resolved SourceAndCommand, or with an empty
\* destination directory, emits one diagnostic notification and then done(Error),
\* and creates no process, no directory and no output file.
C7_UnconfiguredStartFails ==
    [][UnconfiguredStart => (DiagnosticThenError /\ NothingCreated)]_vars

\* C7 as amended: on an instance that holds no process, start() with no resolved
\* SourceAndCommand, or with an empty destination directory, emits one diagnostic
\* notification and then done(Error); on an instance that holds a process it emits
\* done(Error) alone; in both cases it creates no process, no directory and no file.
C7_UnconfiguredStartFailsIdle ==
    [][UnconfiguredStart =>
          /\ NothingCreated
          /\ IF m_process = NoProcess THEN DiagnosticThenError
             ELSE NewlyEmitted = <<done(startCalls', "Error")>>]_vars

\* start() was called with a resolved SourceAndCommand and no destination directory.
C7_Witness ==
    /\ m_sourceAndCommand # NoSourceAndCommand
    /\ m_process = NoProcess
    /\ startCalls = 1
    /\ emitted = <<outputReceived(1, <<"No destination directory set.">>), done(1, "Error")>>

\* The destination directory does not exist and cannot be created.
DestinationNotCreatable ==
    /\ m_destDir # ""
    /\ m_destDir \notin dirs
    /\ ~isWritableDir(parentDir(m_destDir))

\* C8: when the destination directory does not exist and cannot be created, start()
\* ends with done(Error) and starts no child process, whichever tool was resolved.
C8_NoProcessWithoutDestination ==
    [][(StartStep /\ m_sourceAndCommand # NoSourceAndCommand /\ DestinationNotCreatable)
          => /\ UNCHANGED m_process
             /\ NewlyEmitted # <<>>
             /\ NewlyEmitted[Len(NewlyEmitted)] = done(startCalls', "Error")]_vars

\* The gzip process has finished.
GzipFinished == GzipProcess /\ m_process.state = "Finished"

OutputFileExists == outputFile # NoOutputFile /\ outputFile.path \in DOMAIN files

\* C9: when the gzip process has finished with success, the output file exists and
\* holds exactly what the child wrote to its standard output; and once the process
\* has finished, the file exists only if the process succeeded.
C9_OutputFileHoldsStdout ==
    GzipFinished =>
        /\ m_process.result = "FinishedWithSuccess"
               => (OutputFileExists /\ files[outputFile.path] = childStdout)
        /\ OutputFileExists => m_process.result = "FinishedWithSuccess"

\* C10: when the gzip process has finished without success, the output file does
\* not exist, whatever number of chunks was written to it.
C10_FailedProcessLeavesNoFile ==
    (GzipFinished /\ m_process.result # "FinishedWithSuccess") => ~OutputFileExists

\* The process failed after two chunks had been written in full to the file.
C10_Witness ==
    /\ GzipFinished
    /\ m_process.result = "FinishedWithError"
    /\ m_process.stdoutChunks = 2
    /\ DoneCount(m_process.call) = 1
    /\ outputFile.path \notin DOMAIN files

----------------------------------------------------------------------------
(* Further properties of the executor.                                     *)

\* A done(Error) was emitted for the start() call.
ReportedError(call) ==
    \E i \in DOMAIN emitted : emitted[i] = done(call, "Error")

\* C11: in the gzip branch, once the attempt is over (the process has finished), an
\* attempt that reported Error, for a failed process or for a short write, has left
\* no output file.
C11_ErrorLeavesNoFile ==
    (GzipFinished /\ ReportedError(m_process.call)) => ~OutputFileExists

\* A step of start() on an instance whose process has not finished.
StartWhileRunning ==
    StartStep /\ m_process # NoProcess /\ m_process.state = "Running"

\* The "Running ..." notification that announces a started process.
IsRunningMessage(e) == IsOutput(e) /\ e.arg[1] = "Running "

\* The signals emitted so far for the start() call.
SignalsOf(call) == SelectSeq(emitted, LAMBDA e : e.call = call)

\* The start() call was rejected by the assertion: its first signal is done.
Rejected(call) == SignalsOf(call) # <<>> /\ IsDone(SignalsOf(call)[1])

\* The rejected call never gets a process or a further signal: it was not queued.
RejectedNeverRuns ==
    \A call \in 1..startCalls :
        Rejected(call) =>
            /\ SignalsOf(call) = <<done(call, "Error")>>
            /\ m_process # NoProcess /\ m_process.call # call

\* C12: start() on an instance whose process has not finished creates no second
\* process and leaves the running process, its output file and its callbacks'
\* bookkeeping untouched; the call is not ignored (it emits a signal of its own) and
\* not queued (it never gets a process or a later signal).
C12_StartWhileRunningRejected ==
    /\ [][StartWhileRunning =>
             /\ UNCHANGED <<m_process, outputFile, files, dirs, childStdout>>
             /\ NewlyEmitted # <<>>
             /\ \A i \in DOMAIN NewlyEmitted :
                    NewlyEmitted[i].call = startCalls' /\ ~IsRunningMessage(NewlyEmitted[i])]_vars
    /\ []RejectedNeverRuns

\* The second start() was rejected while the gzip process of the first was running,
\* and the process went on to report a chunk on its standard error.
C12_Witness ==
    /\ startCalls = 2
    /\ GzipProcess /\ m_process.state = "Running" /\ m_process.call = 1
    /\ m_process.stderrChunks = 1
    /\ SignalsOf(2) = <<done(2, "Error")>>
    /\ IsOutput(emitted[Len(emitted)]) /\ emitted[Len(emitted)].call = 1

\* C13 as stated: start() on an instance whose process is running emits no terminal
\* done event.
C13_NoDoneWhileRunning ==
    [][StartWhileRunning =>
          \A i \in DOMAIN NewlyEmitted : ~IsDone(NewlyEmitted[i])]_vars

\* C13 as amended: start() on an instance whose process is running emits done(Error)
\* for the call that is made, and nothing else: no diagnostic notification.
C13_DoneErrorWhileRunning ==
    [][StartWhileRunning => NewlyEmitted = <<done(startCalls', "Error")>>]_vars

\* The second start() was made while the archive process of the first was running
\* and has emitted done(Error); the process of the first has emitted no done.
C13_Witness ==
    /\ startCalls = 2
    /\ m_process # NoProcess /\ m_process.branch = "archive"
    /\ m_process.state = "Running" /\ m_process.call = 1
    /\ canRun
    /\ DoneCount(1) = 0
    /\ emitted[Len(emitted)] = done(2, "Error")

\* A terminal event has been emitted by the instance.
TerminalEmitted == \E i \in DOMAIN emitted : IsDone(emitted[i])

\* The step of start() launches a child process.
Launches == m_process' # m_process

\* C14 as stated: once the instance has emitted a terminal event, no later start()
\* launches a child process.
C14_NoLaunchAfterTerminal ==
    [][(StartStep /\ TerminalEmitted) => ~Launches]_vars

\* C14 as amended: once the instance holds a process that has emitted its terminal
\* event, no later start() launches a child process or announces one.
C14_NoLaunchAfterProcess ==
    [][(StartStep /\ m_process # NoProcess /\ DoneCount(m_process.call) > 0) =>
          /\ ~Launches
          /\ \A i \in DOMAIN NewlyEmitted : ~IsRunningMessage(NewlyEmitted[i])]_vars

\* The process of the first start() finished with success and the second start()
\* was rejected.
C14_Witness ==
    /\ startCalls = 2
    /\ m_process # NoProcess /\ m_process.state = "Finished" /\ m_process.call = 1
    /\ m_process.result = "FinishedWithSuccess"
    /\ emitted[Len(emitted)] = done(2, "Error")
    /\ emitted[Len(emitted) - 1] = done(1, "Success")

\* The archive process has finished.
ArchiveFinished ==
    m_process # NoProcess /\ m_process.branch = "archive" /\ m_process.state = "Finished"

\* The "Command failed." notifications emitted for the start() call.
CommandFailedCount(call) ==
    Len(SelectSeq(emitted, LAMBDA e : e = outputReceived(call, <<"Command failed.">>)))

\* C15: when the archive process has finished, the one terminal event of its call is
\* Success if the process result is FinishedWithSuccess and Error otherwise; in the
\* failure case exactly one "Command failed." notification was emitted and it comes
\* immediately before the terminal event, in the success case none was emitted.
C15_ArchiveOutcome ==
    ArchiveFinished =>
        LET call == m_process.call
            signals == SignalsOf(call)
            success == m_process.result = "FinishedWithSuccess"
        IN  /\ DoneCount(call) = 1
            /\ signals[Len(signals)] = done(call, IF success THEN "Success" ELSE "Error")
            /\ CommandFailedCount(call) = (IF success THEN 0 ELSE 1)
            /\ ~success =>
                   signals[Len(signals) - 1] = outputReceived(call, <<"Command failed.">>)

\* The archive process of the first start() forwarded a chunk and then finished with
\* an error.
C15_Witness ==
    /\ ArchiveFinished
    /\ m_process.result = "FinishedWithError"
    /\ m_process.stdoutChunks = 1
    /\ Len(SignalsOf(1)) = 4
    /\ SignalsOf(1)[3] = outputReceived(1, <<"Command failed.">>)
    /\ SignalsOf(1)[4] = done(1, "Error")

\* A step of start() that reaches the gzip branch.
GzipStart ==
    /\ StartStep
    /\ m_process = NoProcess
    /\ m_sourceAndCommand # NoSourceAndCommand
    /\ m_destDir # ""
    /\ m_sourceAndCommand.m_commandTemplate.executable.name = "gzip"

\* The output file of the gzip branch cannot be opened: no file name was set, or the
\* destination directory does not exist after start() tried to create it.
OutputFileNotOpenable ==
    \/ m_gzipFileDestName = ""
    \/ m_destDir \notin dirs'
    \/ ~isWritableDir(m_destDir)

\* C16: when start() reaches the gzip branch and the output file cannot be opened, it
\* emits the diagnostic notification and then done(Error), creates no process and no
\* file, and leaves the instance with no process.
C16_OpenFailureStartsNothing ==
    [][(GzipStart /\ OutputFileNotOpenable) =>
          /\ NewlyEmitted = <<outputReceived(startCalls', <<"Failed to open output file.">>),
                              done(startCalls', "Error")>>
          /\ m_process' = NoProcess
          /\ UNCHANGED <<outputFile, files>>]_vars

\* start() reached the gzip branch with a destination directory that exists and no
\* file name, and failed to open the output file.
C16_Witness ==
    /\ startCalls = 1
    /\ m_process = NoProcess
    /\ m_sourceAndCommand # NoSourceAndCommand
    /\ m_sourceAndCommand.m_commandTemplate.executable.name = "gzip"
    /\ m_destDir \in dirs
    /\ m_gzipFileDestName = ""
    /\ emitted = <<outputReceived(1, <<"Failed to open output file.">>), done(1, "Error")>>

----------------------------------------------------------------------------
(* The renderer's properties.                                              *)

\* Whether the string of symbols begins with the text.
StartsWith(str, text) == Len(str) >= Len(text) /\ SubSeq(str, 1, Len(text)) = text

\* The argument with every placeholder of the template replaced by its path, each
\* path inserted as given.
RECURSIVE Substituted(_, _, _)
Substituted(arg, sourceFile, destDir) ==
    IF arg = <<>> THEN <<>>
    ELSE IF StartsWith(arg, Src)
    THEN sourceFile \o Substituted(SubSeq(arg, Len(Src) + 1, Len(arg)), sourceFile, destDir)
    ELSE IF StartsWith(arg, Dest)
    THEN destDir \o Substituted(SubSeq(arg, Len(Dest) + 1, Len(arg)), sourceFile, destDir)
    ELSE <<Head(arg)>> \o Substituted(Tail(arg), sourceFile, destDir)

\* unarchiveCommand() has been called with the arguments drawn.
Rendered == rendered # NoRendering /\ rendered.command # NoCommand

\* C17: the rendered command has the executable of the template, and each of its
\* arguments is the argument of the template with every %{src} replaced by the source
\* path and every %{dest} by the destination path, each path inserted as given, so
\* that no placeholder of the template remains.
C17_SubstitutionExactAndTotal ==
    Rendered =>
        LET split == splitArguments(rendered.commandTemplate)
            args == rendered.command.args
        IN  /\ rendered.command.executable = rendered.commandTemplate.executable
            /\ Len(args) = Len(split)
            /\ \A i \in DOMAIN split :
                   args[i] = Substituted(split[i], rendered.sourceFile, rendered.destDir)

----------------------------------------------------------------------------
(* The executor's diagnostics, retries and stream routing.                 *)

\* The diagnostic notifications that describe a failure.
Diagnostics ==
    {<<"No source file set.">>, <<"No destination directory set.">>,
     <<"Failed to open output file.">>, <<"Failed to write output file.">>,
     <<"Command failed.">>}

\* The signal emitted immediately before emitted[i] is a diagnostic notification of
\* the same start() call.
DiagnosticBefore(i) ==
    /\ i > 1
    /\ IsOutput(emitted[i - 1])
    /\ emitted[i - 1].call = emitted[i].call
    /\ emitted[i - 1].arg \in Diagnostics

\* The start() call was made on an instance that held a process already (m_process
\* is never reset, and a later call has a larger number).
MadeWithProcess(call) == m_process # NoProcess /\ call > m_process.call

\* C18 as stated: every done(Error) is preceded, within its start() call, by a
\* diagnostic notification that describes the failure.
C18_ErrorHasDiagnostic ==
    \A i \in DOMAIN emitted :
        (IsDone(emitted[i]) /\ emitted[i].arg = <<"Error">>) => DiagnosticBefore(i)

\* C18 as amended: every done(Error) is immediately preceded by a diagnostic
\* notification of its start() call, except the done(Error) of a start() made on an
\* instance that holds a process, which is the only signal of that call.
C18_ErrorHasDiagnosticUnlessAsserted ==
    \A i \in DOMAIN emitted :
        (IsDone(emitted[i]) /\ emitted[i].arg = <<"Error">>) =>
            IF MadeWithProcess(emitted[i].call)
            THEN SignalsOf(emitted[i].call) = <<emitted[i]>>
            ELSE DiagnosticBefore(i)

\* The gzip process of the first start() failed, with its diagnostic, and the second
\* start() was rejected with done(Error) alone.
C18_Witness ==
    /\ startCalls = 2
    /\ GzipFinished /\ m_process.call = 1 /\ m_process.result = "FinishedWithError"
    /\ emitted[Len(emitted)] = done(2, "Error")
    /\ emitted[Len(emitted) - 1] = done(1, "Error")
    /\ emitted[Len(emitted) - 2] = outputReceived(1, <<"Command failed.">>)

\* The "Running ..." notifications emitted for the start() call: one for each child
\* process started.
RunningMessages(call) == SelectSeq(emitted, LAMBDA e : e.call = call /\ IsRunningMessage(e))

\* The done handler of the process has run: it has emitted "Command failed." or
\* done(Success).
ProcessReported(call) ==
    \/ CommandFailedCount(call) > 0
    \/ \E i \in DOMAIN emitted : emitted[i] = done(call, "Success")

\* C19: every start() call has started at most one child process; the process the
\* instance holds is the one its call announced, with the command rendered from the
\* resolved candidate; and once the process has reported its result, failure
\* included, it is finished and nothing else has been started.
C19_NothingRetried ==
    /\ \A call \in 1..startCalls : Len(RunningMessages(call)) <= 1
    /\ m_process # NoProcess =>
           /\ RunningMessages(m_process.call) =
                  <<outputReceived(m_process.call,
                                   RunningMessage(m_process.command,
                                                  m_process.workingDirectory))>>
           /\ ProcessReported(m_process.call) => m_process.state = "Finished"

\* The one process of the first start() forwarded a chunk and failed; nothing has
\* been emitted since.
C19_Witness ==
    /\ startCalls = 1
    /\ ArchiveFinished /\ m_process.result = "FinishedWithError"
    /\ m_process.stdoutChunks = 1
    /\ Len(RunningMessages(1)) = 1
    /\ emitted[Len(emitted)] = done(1, "Error")
    /\ m_sourceAndCommand.m_commandTemplate.executable = m_process.command.executable

\* A step of the readyReadStandardOutput handler of the gzip branch.
GzipStdoutStep == GzipProcess /\ m_process'.stdoutChunks = m_process.stdoutChunks + 1

\* A step of the readyReadStandardError handler of the gzip branch.
GzipStderrStep == GzipProcess /\ m_process'.stderrChunks = m_process.stderrChunks + 1

\* The chunk the child wrote to its standard output in the step.
StdoutChunk == SubSeq(childStdout', Len(childStdout) + 1, Len(childStdout'))

\* The bytes the step appended to the output file.
Appended ==
    SubSeq(files'[outputFile.path], Len(files[outputFile.path]) + 1,
           Len(files'[outputFile.path]))

\* C20: in the gzip branch a chunk of the child's standard output is written to the
\* output file and is not forwarded: the file grows by the chunk and nothing is
\* emitted, or the write is short, the file grows by the bytes accepted, and the
\* failure is reported; a chunk of the child's standard error is forwarded as one
\* notification and the output file is left as it is.
C20_StreamRouting ==
    /\ [][GzipStdoutStep =>
             /\ StdoutChunk \in Chunks
             /\ SubSeq(files'[outputFile.path], 1, Len(files[outputFile.path]))
                    = files[outputFile.path]
             /\ \/ Appended = StdoutChunk /\ NewlyEmitted = <<>>
                \/ /\ Appended # StdoutChunk
                   /\ Appended = SubSeq(StdoutChunk, 1, Len(Appended))
                   /\ NewlyEmitted =
                          <<outputReceived(m_process.call, <<"Failed to write output file.">>),
                            done(m_process.call, "Error")>>
             /\ \A i \in DOMAIN NewlyEmitted : NewlyEmitted[i].arg # StdoutChunk]_vars
    /\ [][GzipStderrStep =>
             /\ UNCHANGED <<files, outputFile, childStdout>>
             /\ Len(NewlyEmitted) = 1
             /\ IsOutput(NewlyEmitted[1])
             /\ NewlyEmitted[1].call = m_process.call
             /\ NewlyEmitted[1].arg \notin Diagnostics]_vars

\* The gzip process has written one chunk to its standard output and one to its
\* standard error: the file holds the first, the second was forwarded.
C20_Witness ==
    /\ GzipProcess /\ m_process.state = "Running"
    /\ m_process.stdoutChunks = 1 /\ m_process.stderrChunks = 1
    /\ childStdout = <<"b", "c">>
    /\ files[outputFile.path] = <<"b", "c">>
    /\ Len(SignalsOf(m_process.call)) = 2
    /\ SignalsOf(m_process.call)[2] =
           outputReceived(m_process.call, <<"gzip: unexpected end of file">>)

----------------------------------------------------------------------------
(* The catalog under concurrent first calls.                               *)

\* C21: every call of sTools() that has returned found the complete catalog: the
\* entries of the one build, in their order, none missing and none twice; and the
\* static list is empty or a part of that one build.
C21_CatalogBuiltOnce ==
    catalogCalls # NoCatalogCalls =>
        /\ \A t \in Threads :
               catalogCalls.pc[t] = "returned" => catalogCalls.result[t] = BuildTools
        /\ Len(tools) <= Len(BuildTools)
        /\ tools = SubSeq(BuildTools, 1, Len(tools))

----------------------------------------------------------------------------
(* The branch start() takes for the resolved tool.                         *)

\* The command was resolved from the catalog's gzip entry.
FromGzipEntry(command) ==
    \E i \in EntriesNamed("gzip") :
        /\ command.args = BuildTools[i].command.args
        /\ command.executable = EntryExecutable(i)

\* C22: the process start() launched for a command resolved from the catalog's gzip
\* entry is on the raw-stream branch, whatever path the resolver found for it, and the
\* process launched for a command of any other entry is on the archive branch.
C22_GzipEntryTakesStreamBranch ==
    m_process # NoProcess =>
        (m_process.branch = "gzip" <=> FromGzipEntry(m_sourceAndCommand.m_commandTemplate))

----------------------------------------------------------------------------
(* The rank of the stream decompressor.                                    *)

\* The last call of sourceAndCommand() selected the stream decompressor.
GzipSelected ==
    /\ Called
    /\ lastCall.result.ok
    /\ lastCall.result.command.executable.name
           = withExecutableSuffix(FilePath("", "gzip")).name

\* C23: in the catalog sTools() has built, the stream decompressor is the last entry
\* and no other entry; and when sourceAndCommand() selected it, no other entry that
\* supports the type of the file has an executable that can be found.
C23_GzipIsLastResort ==
    /\ tools # <<>> =>
           \A i \in DOMAIN tools :
               tools[i].command.executable.name = "gzip" <=> i = Len(tools)
    /\ GzipSelected =>
           \A i \in Usable(lastCall.sourceFile) :
               BuildTools[i].command.executable.name = "gzip"

\* The stream decompressor was selected for a compressed tar archive: entries before
\* it support the type, and none of their executables was found.
C23_Witness ==
    /\ GzipSelected
    /\ lastCall.sourceFile = "archive.tar.gz"
    /\ Cardinality(Supporting(lastCall.sourceFile)) = 3
    /\ Cardinality(Usable(lastCall.sourceFile)) = 1
    /\ lastCall.result.searched[Len(lastCall.result.searched)]
           = withExecutableSuffix(FilePath("", "gzip")).name

----------------------------------------------------------------------------
(* The terminal event of a started process.                                *)

\* A child process was started and has not reported its end.
ProcessRunning == m_process # NoProcess /\ m_process.state = "Running"

\* The process has finished and the last signal of its start() call is the terminal
\* event with the outcome of the process.
FinishedWithDone ==
    /\ m_process # NoProcess
    /\ m_process.state = "Finished"
    /\ SignalsOf(m_process.call) # <<>>
    /\ SignalsOf(m_process.call)[Len(SignalsOf(m_process.call))] =
           done(m_process.call,
                IF m_process.result = "FinishedWithSuccess" THEN "Success" ELSE "Error")

\* C24: with a process abstraction that delivers Process::done, a started process
\* leads to its finished state with the terminal event of its call emitted; and in
\* no state has the process finished without the terminal event being emitted.
C24_FinishedProcessEmitsDone ==
    /\ ProcessRunning ~> FinishedWithDone
    /\ []((m_process # NoProcess /\ m_process.state = "Finished") => FinishedWithDone)

\* The gzip process delivered a chunk that was written in full, then failed, and the
\* terminal event of its call is the one of the done handler.
C24_Witness ==
    /\ FinishedWithDone
    /\ GzipFinished
    /\ m_process.result = "FinishedWithError"
    /\ m_process.stdoutChunks = 1
    /\ DoneCount(m_process.call) = 1
    /\ startCalls = 1

----------------------------------------------------------------------------
(* The task adapter.                                                       *)

\* The done signals the Unarchiver has emitted, in order.
DonesEmitted == SelectSeq(emitted, IsDone)

\* C25: the adapter has emitted TaskInterface::done once for every done the Unarchiver
\* has emitted, in the same order and with the same result, and no other.
C25_AdapterForwardsDone ==
    /\ Len(taskInterfaceDone) = Len(DonesEmitted)
    /\ \A i \in DOMAIN DonesEmitted : taskInterfaceDone[i] = DonesEmitted[i].arg[1]

\* The adapter has forwarded the Success of the process and then the Error of a
\* second start().
C25_Witness ==
    /\ taskInterfaceDone = <<"Success", "Error">>
    /\ DonesEmitted = <<done(1, "Success"), done(2, "Error")>>

----------------------------------------------------------------------------
(* The catalog and the resolved command.                                   *)

\* C26: after every call of sourceAndCommand(), successful or failing, the static
\* list holds the entries as they were built, each with its original executable name
\* and arguments; and a resolved command has the arguments of the template of a
\* supporting entry, placeholders included, and the path found for its executable.
C26_ResolutionKeepsCatalog ==
    /\ tools \in {<<>>, BuildTools}
    /\ Called => tools = BuildTools
    /\ (Called /\ lastCall.result.ok) =>
           \E i \in Supporting(lastCall.sourceFile) :
               /\ lastCall.result.command.args = tools[i].command.args
               /\ lastCall.result.command.raw = tools[i].command.raw
               /\ lastCall.result.command.executable = EntryExecutable(i)
               /\ lastCall.result.command.executable # tools[i].command.executable
               /\ tools[i].command.executable.dir = ""

\* A call resolved 7z in the install directory the registry names: the resolved
\* command has that path, the catalog entry still has the bare name.
C26_Witness ==
    /\ Called /\ lastCall.result.ok
    /\ lastCall.sourceFile = "archive.7z"
    /\ lastCall.result.command.executable = FilePath("C:/7-Zip", "7z.exe")
    /\ tools = BuildTools
    /\ \E i \in EntriesNamed("7z") :
           /\ tools[i].command.executable = FilePath("", "7z")
           /\ lastCall.result.command.args = tools[i].command.args

\* C27: a SourceAndCommand that sourceAndCommand() returned has the source path of
\* the call and a command whose executable is a path the search found on the host,
\* not the empty path; and resolveTool() returns no value for an entry exactly when
\* the search for its executable finds nothing.
C27_ResolvedExecutableWasFound ==
    /\ (Called /\ lastCall.result.ok) =>
           /\ lastCall.result.sourceFile = lastCall.sourceFile
           /\ lastCall.result.command.executable # EmptyFilePath
           /\ lastCall.result.command.executable \in hostFiles
    /\ \A i \in DOMAIN BuildTools :
           IF EntryResolves(i)
           THEN /\ resolveTool(BuildTools[i]) # NoTool
                /\ resolveTool(BuildTools[i]).command.executable = EntryExecutable(i)
           ELSE resolveTool(BuildTools[i]) = NoTool

\* A call returned a command although the search for the executable of an earlier
\* candidate had found nothing.
C27_Witness ==
    /\ Called /\ lastCall.result.ok
    /\ lastCall.sourceFile = "lib.jar"
    /\ lastCall.result.command.executable \in hostFiles
    /\ Len(lastCall.result.searched) = 3
    /\ \E i \in Supporting(lastCall.sourceFile) :
           ~EntryResolves(i) /\ resolveTool(BuildTools[i]) = NoTool

----------------------------------------------------------------------------
(* The notification that announces the process.                            *)

\* The start() call created the process of the instance.
Launched(call) == m_process # NoProcess /\ m_process.call = call

\* C28: the first signal of a start() call that created a process is the "Running
\* <cmd> in <dir>" notification for the command and working directory of that
\* process, ahead of everything the callbacks of the process emit, and the call has no
\* second one; a start() call that created no process (no source, no destination, the
\* output file could not be opened, a process was already present) has no "Running"
\* notification at all and ends with done(Error).
C28_RunningAnnouncesEveryLaunch ==
    \A call \in 1..startCalls :
        LET signals == SignalsOf(call)
        IN  IF Launched(call)
            THEN /\ signals # <<>>
                 /\ signals[1] = outputReceived(call, RunningMessage(m_process.command,
                                                         m_process.workingDirectory))
                 /\ \A i \in 2..Len(signals) : ~IsRunningMessage(signals[i])
            ELSE /\ signals # <<>>
                 /\ \A i \in DOMAIN signals : ~IsRunningMessage(signals[i])
                 /\ signals[Len(signals)] = done(call, "Error")

\* The first start() failed before a process was created and announced nothing; the
\* second created one, announced it, and the process has reported since.
C28_Witness ==
    /\ startCalls = 2
    /\ ~Launched(1) /\ Launched(2)
    /\ Len(SignalsOf(1)) = 2
    /\ IsRunningMessage(SignalsOf(2)[1])
    /\ Len(SignalsOf(2)) >= 3
    /\ IsDone(SignalsOf(2)[Len(SignalsOf(2))])

====
